---------------------------- MODULE Spec2Model ----------------------------
(***************************************************************************)
(* A state-machine model of the RAG chatbot front end (Next.js pages under *)
(* rag_frontend/app/dashboard) and of the per-project vector store that    *)
(* the specification places behind it.                                     *)
(*                                                                         *)
(* JavaScript strings are modelled as sequences of atoms: a one-character  *)
(* atom such as " " or "q" for text the user types, and one atom for each  *)
(* string literal of the source.  String concatenation is \o, so that      *)
(* trim(), template literals and the || / truthiness tests of the source   *)
(* are computed, not assumed.  Date.now() ids and timestamps of messages   *)
(* are not modelled; messages carry the number of the submit that produced *)
(* them instead (field turn), which no handler reads.                      *)
(***************************************************************************)
EXTENDS Naturals, Sequences, FiniteSets, TLC

\* ------------------------------------------------------------------ bounds
\* Accepted (non-blank) submits per mounted chat page.
MaxTurns == 2
\* Entries in the upload page's file selection.
MaxFiles == 2
\* Concurrent ingest calls on the vector store, one file each.
MaxIngests == 2
MaxProbes == 2
MaxOrphans == 1
\* Chunks, hence records of one upsert batch, a stored file gives.
ChunksPerFile == 2
\* k of search: the hits a search returns at most.
TopK == 2

\* --------------------------------------------------------- JavaScript values
\* undefined / null: a missing field, an absent localStorage key.
Undefined == <<"undefined">>
\* localStorage.getItem("token") when the key is absent.
Null == "null"

WhiteSpace == {" "}

RECURSIVE TrimStart(_)
TrimStart(s) ==
    IF s # <<>> /\ Head(s) \in WhiteSpace THEN TrimStart(Tail(s)) ELSE s

RECURSIVE TrimEnd(_)
TrimEnd(s) ==
    IF s # <<>> /\ s[Len(s)] \in WhiteSpace
    THEN TrimEnd(SubSeq(s, 1, Len(s) - 1))
    ELSE s

\* A trim() left out: the text is used as typed.
NoTrim(s) == s

\* String.prototype.trim
Trim(s) == TrimEnd(TrimStart(s))

\* !v for a string-or-undefined value
Falsy(v) == v = Undefined \/ v = <<>>

\* !token for the value localStorage.getItem returns
NoToken(t) == t = Null \/ t = ""

\* a || b on string-or-undefined values
OrElse(a, b) == IF Falsy(a) THEN b ELSE a

\* ------------------------------------------------------------ sample inputs
\* Values the token key of localStorage can hold.
TokenValues == {Null, "", "tokA", "tokB"}
\* Texts typed into the chat input.
Inputs == {<<>>, <<" ">>, <<" ", "q">>}
\* Project names typed into the upload form.
ProjectInputs == {<<>>, <<" ">>, <<"p", " ">>}
\* Files offered by the file picker: one of a supported type, one not.
FilePool == {<<"a", ".pdf">>, <<"c", ".exe">>}
\* [project] and [id] route parameters of URLs the user opens.
ProjectParams == {<<"p">>}
IdParams == {<<"c1">>, <<"c9">>}

\* ------------------------------------------------------------------- routes
ChatRoute(p) == [page |-> "chat", project |-> p, id |-> Undefined]
DetailRoute(p, i) == [page |-> "detail", project |-> p, id |-> i]
UploadRoute == [page |-> "upload", project |-> Undefined, id |-> Undefined]
LoginRoute == [page |-> "login", project |-> Undefined, id |-> Undefined]

DashboardRoutes ==
    {ChatRoute(p) : p \in ProjectParams}
        \cup {DetailRoute(p, i) : p \in ProjectParams, i \in IdParams}
        \cup {UploadRoute}

VARIABLES
    token,            \* localStorage "token"
    route,            \* the page the router shows
    pageEffect,       \* "todo" until the mounted page's mount effect has run
    layoutEffect,     \* "todo" until DashboardLayout's mount effect has run
    net,              \* requests in flight (fetch promises not yet settled)
    toast,            \* the toast the last step raised, NoToast if none
    messages,         \* ChatPage / ChatDetailPage: messages
    input,            \* ChatPage / ChatDetailPage: input
    isLoading,        \* ChatPage / ChatDetailPage: isLoading
    isInitialLoading, \* ChatDetailPage: isInitialLoading
    turns,            \* submits accepted by the mounted chat page
    projectName,      \* UploadPage: projectName
    files,            \* UploadPage: files
    isUploading,      \* UploadPage: isUploading
    chats,            \* DashboardLayout: chats
    chatsLoading,     \* DashboardLayout: isLoading
    error,            \* DashboardLayout: error
    registry,         \* store: project -> collection id, NoCollection if none
    collections,      \* store: collection id -> its visible and pending records
    mutex,            \* store: project -> the holder of its write lease
    ingests,          \* store: the ingest calls, each at its stage
    deleter,          \* store: the delete_collection call, at its stage
    lastSearch,       \* store: what the last step's search returned
    isBrowser,        \* config: typeof window !== "undefined"
    hostname,         \* config: window.location.hostname, Undefined outside a browser
    NEXT_PUBLIC_API_URL, \* config: process.env.NEXT_PUBLIC_API_URL
    apiProbe          \* config: the calls of isApiReachable, the last at its stage

vars ==
    <<token, route, pageEffect, layoutEffect, net, toast, messages, input,
      isLoading, isInitialLoading, turns, projectName, files, isUploading,
      chats, chatsLoading, error, registry, collections, mutex, ingests,
      deleter, lastSearch, isBrowser, hostname, NEXT_PUBLIC_API_URL, apiProbe>>

frontVars ==
    <<token, route, pageEffect, layoutEffect, net, toast, messages, input,
      isLoading, isInitialLoading, turns, projectName, files, isUploading,
      chats, chatsLoading, error>>
storeVars == <<registry, collections, mutex, ingests, deleter, lastSearch>>
configVars == <<isBrowser, hostname, NEXT_PUBLIC_API_URL, apiProbe>>

chatVars == <<messages, input, isLoading, isInitialLoading, turns>>
uploadVars == <<projectName, files, isUploading>>
layoutVars == <<chats, chatsLoading, error>>


\* ----------------------------------------------------------------- requests
\* The header value with the scheme left out.
BareToken(t) == <<t>>

\* The Authorization header value `Bearer ${token}`.
Bearer(t) == <<"Bearer ", t>>

\* The route parameters (or form fields) a handler's closure holds while it
\* awaits its fetch.
Closure(project, id) == [project |-> project, id |-> id]

\* One fetch() call: who awaits it, where it goes, what it carries, and the
\* closure of the handler awaiting it.  turn is the number of the submit
\* that sent it (0 for requests no submit sends).
Fetch(owner, endpoint, method, authorization, form, turn, closure) ==
    [owner |-> owner, endpoint |-> endpoint, method |-> method,
     authorization |-> authorization, form |-> form, turn |-> turn,
     closure |-> closure]

\* FormData.getAll(key) on a form kept as a sequence of <<key, value>> entries.
RECURSIVE FormGetAll(_, _)
FormGetAll(form, key) ==
    IF form = <<>> THEN <<>>
    ELSE IF Head(form)[1] = key
         THEN <<Head(form)[2]>> \o FormGetAll(Tail(form), key)
         ELSE FormGetAll(Tail(form), key)

FormHas(form, key) == FormGetAll(form, key) # <<>>

\* ------------------------------------------------------------------- toasts
Toast(title, description, variant) ==
    [title |-> title, description |-> description, variant |-> variant]

NoToast == Toast(Undefined, Undefined, Undefined)

\* ------------------------------------------------------- responses to /chat
\* The parsed JSON body of a response, by the fields the handlers read.  str
\* is the value when the body is a JSON string, Undefined when it is not.
ChatData(str, chatbot_answer, response, answer, text, detail, vector_id) ==
    [str |-> str, chatbot_answer |-> chatbot_answer, response |-> response,
     answer |-> answer, text |-> text, detail |-> detail,
     vector_id |-> vector_id]

EmptyObject ==
    ChatData(Undefined, Undefined, Undefined, Undefined, Undefined, Undefined,
             Undefined)

\* A settled fetch: net = "fault" when the promise rejects; otherwise a
\* response with its ok flag and status, and parses = FALSE when
\* response.json() rejects.
Response(netw, ok, status, parses, data) ==
    [net |-> netw, ok |-> ok, status |-> status, parses |-> parses,
     data |-> data]

\* The conversation id the orchestrator answers with (spec 4.6, steps 4 and
\* 7): the one supplied, or a new one when none was supplied.
NewConversationId == <<"c-new">>
AnswerConversationId(req) ==
    IF FormHas(req.form, "vector_id")
    THEN FormGetAll(req.form, "vector_id")[1]
    ELSE NewConversationId

\* The outcomes of one POST /chat the model distinguishes.
ChatResponses(req) ==
    LET vid == AnswerConversationId(req)
        U == Undefined
    IN  { Response("fault", FALSE, 0, FALSE, EmptyObject),
          Response("http", FALSE, 404, TRUE,
                   ChatData(U, U, U, U, U, <<"Project not found">>, U)),
          Response("http", FALSE, 500, TRUE, EmptyObject),
          Response("http", TRUE, 200, FALSE, EmptyObject),
          Response("http", TRUE, 200, TRUE,
                   ChatData(U, <<"ans">>, U, U, U, U, vid)),
          Response("http", TRUE, 200, TRUE,
                   ChatData(U, U, <<"alt">>, U, U, U, vid)),
          Response("http", TRUE, 200, TRUE,
                   ChatData(U, U, U, <<"alt">>, U, U, vid)),
          Response("http", TRUE, 200, TRUE,
                   ChatData(U, U, U, U, <<"alt">>, U, vid)),
          Response("http", TRUE, 200, TRUE,
                   ChatData(<<"alt">>, U, U, U, U, U, U)),
          Response("http", TRUE, 200, TRUE, EmptyObject) }

\* ----------------------------------------------------------------- messages
Message(role, content, turn) ==
    [role |-> role, content |-> content, turn |-> turn]

WelcomeText(project) ==
    <<"Welcome to the ">> \o project
        \o <<" project! Ask me anything about your documents.">>

WelcomeMessage(project) == Message("assistant", WelcomeText(project), 0)

FallbackAnswer == <<"I couldn't find an answer to that question.">>
SorryText == <<"Sorry, I encountered an error processing your request.">>

\* error.message of what fetch() and response.json() reject with.
FetchErrorMessage == <<"Failed to fetch">>
JsonErrorMessage == <<"Unexpected token in JSON">>


\* -------------------------------------------------- bodies of /data-ingest
\* The parsed body of a /data-ingest response by the fields the handler
\* reads (message, detail), and the per-file report the pipeline returns.
UploadData(message, detail, report) ==
    [message |-> message, detail |-> detail, report |-> report]

NoUploadData == UploadData(Undefined, Undefined, <<>>)


\* ------------------------------------------------------------ page mounting
\* The state a page component is constructed with (its useState initial
\* values) when the router shows route r.  UploadPage has no mount effect.
MountPage(r) ==
    /\ route' = r
    /\ pageEffect' = IF r.page = "upload" THEN "done" ELSE "todo"
    /\ messages' = <<>>
    /\ input' = <<>>
    /\ isLoading' = FALSE
    /\ isInitialLoading' = TRUE
    /\ turns' = 0
    /\ projectName' = <<>>
    /\ files' = <<>>
    /\ isUploading' = FALSE

\* The state DashboardLayout is constructed with.
MountLayout ==
    /\ layoutEffect' = "todo"
    /\ chats' = <<>>
    /\ chatsLoading' = TRUE
    /\ error' = Undefined

\* router.push("/login"): the dashboard is left; its state stays as it was.
PushLogin == route' = LoginRoute

\* Effects run after the first commit, before any user event; a page's
\* effects run before those of the layout around it.
Interactive == pageEffect = "done" /\ layoutEffect = "done"

FrontInit ==
    /\ token \in TokenValues
    /\ route \in DashboardRoutes
    /\ pageEffect = IF route.page = "upload" THEN "done" ELSE "todo"
    /\ layoutEffect = "todo"
    /\ net = {}
    /\ toast = NoToast
    /\ messages = <<>>
    /\ input = <<>>
    /\ isLoading = FALSE
    /\ isInitialLoading = TRUE
    /\ turns = 0
    /\ projectName = <<>>
    /\ files = <<>>
    /\ isUploading = FALSE
    /\ chats = <<>>
    /\ chatsLoading = TRUE
    /\ error = Undefined

\* ------------------------------------------------------------- localStorage
\* The token key changes outside the dashboard: the login page stores the
\* token it obtained, another tab of the same origin logs in or out.
StorageChange ==
    /\ Interactive
    /\ route.page # "login"
    /\ \E t \in TokenValues \ {token} : token' = t
    /\ toast' = NoToast
    /\ UNCHANGED <<route, pageEffect, layoutEffect, net, chatVars,
                   uploadVars, layoutVars>>
    /\ UNCHANGED <<storeVars, configVars>>

\* From the login page the user comes back to a dashboard URL: every
\* component is constructed anew, and what the left components still awaited
\* reaches none of them.
OpenDashboard ==
    /\ Interactive
    /\ route.page = "login"
    /\ \E t \in TokenValues : token' = t
    /\ \E r \in DashboardRoutes : MountPage(r)
    /\ MountLayout
    /\ net' = {}
    /\ toast' = NoToast
    /\ UNCHANGED <<storeVars, configVars>>

\* ---------------------------------------------------------------- ChatPage
ChatPage_welcomeEffect ==
    /\ route.page = "chat"
    /\ pageEffect = "todo"
    /\ messages' = <<WelcomeMessage(route.project)>>
    /\ pageEffect' = "done"
    /\ toast' = NoToast
    /\ UNCHANGED <<token, route, layoutEffect, net, input, isLoading,
                   isInitialLoading, turns, uploadVars,
                   layoutVars>>
    /\ UNCHANGED <<storeVars, configVars>>

\* onChange of the input, which is disabled while isLoading.
ChatInput_onChange ==
    /\ route.page \in {"chat", "detail"}
    /\ Interactive
    /\ ~isInitialLoading \/ route.page = "chat"
    /\ ~isLoading
    /\ \E text \in Inputs \ {input} : input' = text
    /\ toast' = NoToast
    /\ UNCHANGED <<token, route, pageEffect, layoutEffect, net, messages,
                   isLoading, isInitialLoading, turns, uploadVars,
                   layoutVars>>
    /\ UNCHANGED <<storeVars, configVars>>

\* The form cannot be submitted while isLoading: the input and the submit
\* button are both disabled.
SubmitDisabled == isLoading

ChatPage_formData(userQuery, project) ==
    << <<"user_query", userQuery>>, <<"project_name", project>> >>

ChatPage_request(tok, userQuery, project, turn) ==
    Fetch("ChatPage", "/chat", "POST", Bearer(tok),
          ChatPage_formData(userQuery, project), turn,
          Closure(project, Undefined))

\* The spread written the other way round: [message, ...prev].
PrependMessage(prev, message) == <<message>> \o prev

\* The list set to the new message alone: [message].
OnlyMessage(prev, message) == <<message>>

\* Where a new message goes in the list: [...prev, message].
AddMessage(prev, message) == Append(prev, message)

\* handleSubmit with the token read outside the try block: the return of
\* the missing-token path runs no finally block.
SubmitChatNoFinally(req) ==
    IF Trim(input) = <<>>
    THEN /\ toast' = NoToast
         /\ UNCHANGED <<token, route, pageEffect, layoutEffect, net, chatVars,
                        uploadVars, layoutVars, storeVars,
                        configVars>>
    ELSE /\ turns < MaxTurns
         /\ messages' = Append(messages, Message("user", input, turns + 1))
         /\ input' = <<>>
         /\ turns' = turns + 1
         /\ isLoading' = TRUE
         /\ IF NoToken(token)
            THEN PushLogin /\ net' = net
            ELSE route' = route /\ net' = net \cup {req}
         /\ toast' = NoToast
         /\ UNCHANGED <<token, pageEffect, layoutEffect, isInitialLoading,
                        uploadVars, layoutVars, storeVars,
                        configVars>>

\* handleSubmit up to its first await (the fetch), for the page owner with
\* the request req it would send.
SubmitChat(req) ==
    IF Trim(input) = <<>>
    THEN /\ toast' = NoToast
         /\ UNCHANGED <<token, route, pageEffect, layoutEffect, net, chatVars,
                        uploadVars, layoutVars, storeVars,
                        configVars>>
    ELSE /\ turns < MaxTurns
         /\ messages' = AddMessage(messages, Message("user", input, turns + 1))
         /\ input' = <<>>
         /\ turns' = turns + 1
         /\ IF NoToken(token)
            THEN /\ PushLogin
                 /\ isLoading' = FALSE
                 /\ net' = net
            ELSE /\ route' = route
                 /\ isLoading' = TRUE
                 /\ net' = net \cup {req}
         /\ toast' = NoToast
         /\ UNCHANGED <<token, pageEffect, layoutEffect, isInitialLoading,
                        uploadVars, layoutVars, storeVars,
                        configVars>>

ChatPage_handleSubmit ==
    /\ route.page = "chat"
    /\ Interactive
    /\ ~SubmitDisabled
    /\ SubmitChat(ChatPage_request(token, input, route.project, turns + 1))

\* Check different possible response formats
ResponseText(data) ==
    IF ~Falsy(data.chatbot_answer) THEN data.chatbot_answer
    ELSE IF ~Falsy(data.response) THEN data.response
    ELSE IF ~Falsy(data.answer) THEN data.answer
    ELSE IF ~Falsy(data.text) THEN data.text
    ELSE IF data.str # Undefined THEN data.str
    ELSE FallbackAnswer

\* The Error the try block of handleSubmit ends with, as its message, or
\* Undefined when it ends without one.
ChatThrown(resp) ==
    IF resp.net = "fault" THEN FetchErrorMessage
    ELSE IF ~resp.parses THEN JsonErrorMessage
    ELSE IF ~resp.ok THEN OrElse(resp.data.detail, <<"Failed to get response">>)
    ELSE Undefined

\* handleSubmit from the settled fetch to its end.
AfterChatFetch(req, resp) ==
    /\ net' = net \ {req}
    /\ IF ChatThrown(resp) = Undefined
       THEN /\ messages' =
                AddMessage(messages,
                    Message("assistant", ResponseText(resp.data), req.turn))
            /\ toast' = NoToast
       ELSE /\ toast' = Toast(<<"Error">>, ChatThrown(resp), "destructive")
            /\ messages' =
                AddMessage(messages, Message("assistant", SorryText, req.turn))
    /\ isLoading' = FALSE
    /\ UNCHANGED <<token, route, pageEffect, layoutEffect, input,
                   isInitialLoading, turns, uploadVars, layoutVars>>
    /\ UNCHANGED <<storeVars, configVars>>

ChatPage_handleSubmit_settled ==
    \E req \in net :
        /\ Interactive
        /\ req.owner = "ChatPage"
        /\ \E resp \in ChatResponses(req) : AfterChatFetch(req, resp)

ChatNext ==
    \/ ChatPage_welcomeEffect
    \/ ChatInput_onChange
    \/ ChatPage_handleSubmit
    \/ ChatPage_handleSubmit_settled

\* -------------------------------------------------- responses to /get_chats
HistoryItem(user_query, chatbot_answer) ==
    [user_query |-> user_query, chatbot_answer |-> chatbot_answer]

Chat(id, project_name, vector_id, chat_history, last_message) ==
    [id |-> id, project_name |-> project_name, vector_id |-> vector_id,
     chat_history |-> chat_history, last_message |-> last_message]

\* A value that may be an array: Array.isArray(v), and its items when it is.
AnArray(items) == [isArray |-> TRUE, items |-> items]
NotAnArray == [isArray |-> FALSE, items |-> <<>>]

\* The parsed body of a /get_chats response: its chats field, and the body
\* itself when the body is an array.
ChatsData(chatsField, self) == [chats |-> chatsField, self |-> self]

StoredHistory ==
    << HistoryItem(<<"q1">>, <<"a1">>), HistoryItem(<<"q2">>, <<"a2">>) >>

StoredChat == Chat(Undefined, <<"p">>, <<"c1">>, StoredHistory, Undefined)
EmptyChat == Chat(<<"7">>, <<>>, <<"c2">>, <<>>, Undefined)
\* A second conversation of project p, of one turn.
SecondChat ==
    Chat(Undefined, <<"p">>, <<"c9">>, <<HistoryItem(<<"q3">>, <<"a3">>)>>,
         Undefined)
\* A conversation of a project the user has named "constructor".
ConstructorChat ==
    Chat(Undefined, <<"constructor">>, <<"c3">>, <<>>, Undefined)

\* The outcomes of one GET /get_chats the model distinguishes.
ChatsResponses ==
    { Response("fault", FALSE, 0, FALSE, ChatsData(NotAnArray, NotAnArray)),
      Response("http", FALSE, 401, TRUE, ChatsData(NotAnArray, NotAnArray)),
      Response("http", FALSE, 500, TRUE, ChatsData(NotAnArray, NotAnArray)),
      Response("http", TRUE, 200, TRUE, ChatsData(NotAnArray, NotAnArray)),
      Response("http", TRUE, 200, TRUE, ChatsData(AnArray(<<>>), NotAnArray)),
      Response("http", TRUE, 200, TRUE,
               ChatsData(AnArray(<<StoredChat>>), NotAnArray)),
      Response("http", TRUE, 200, TRUE,
               ChatsData(AnArray(<<StoredChat, EmptyChat, SecondChat>>),
                         NotAnArray)),
      Response("http", TRUE, 200, TRUE,
               ChatsData(AnArray(<<StoredChat, ConstructorChat>>),
                         NotAnArray)),
      Response("http", TRUE, 200, TRUE,
               ChatsData(NotAnArray, AnArray(<<StoredChat>>))) }

\* ---------------------------------------------------------- ChatDetailPage
\* Array.prototype.find: the first chat whose vector_id is id, or NoChat.
NoChat == Chat(Undefined, Undefined, Undefined, <<>>, Undefined)

RECURSIVE FindChat(_, _)
FindChat(list, id) ==
    IF list = <<>> THEN NoChat
    ELSE IF Head(list).vector_id = id THEN Head(list)
    ELSE FindChat(Tail(list), id)

\* The two pushes of a turn in the other order: the answer, then the query.
ConvertHistoryAnswerFirst(history) ==
    [k \in 1..(2 * Len(history)) |->
        IF k % 2 = 1
        THEN [role |-> "assistant", turn |-> 0,
              content |-> history[(k + 1) \div 2].chatbot_answer]
        ELSE [role |-> "user", turn |-> 0,
              content |-> history[k \div 2].user_query]]

\* Convert chat_history to messages format
RECURSIVE ConvertHistory(_)
ConvertHistory(history) ==
    IF history = <<>> THEN <<>>
    ELSE << Message("user", Head(history).user_query, 0),
            Message("assistant", Head(history).chatbot_answer, 0) >>
             \o ConvertHistory(Tail(history))

fetchChatHistory_request(tok, project, id) ==
    Fetch("fetchChatHistory", "/get_chats", "GET", Bearer(tok), <<>>, 0,
          Closure(project, id))

\* The mount effect of ChatDetailPage: fetchChatHistory up to its fetch.
ChatDetailPage_fetchChatHistory ==
    /\ route.page = "detail"
    /\ pageEffect = "todo"
    /\ pageEffect' = "done"
    /\ IF NoToken(token)
       THEN /\ PushLogin
            /\ isInitialLoading' = FALSE
            /\ net' = net
       ELSE /\ route' = route
            /\ isInitialLoading' = isInitialLoading
            /\ net' = net \cup {fetchChatHistory_request(token, route.project,
                                                           route.id)}
    /\ toast' = NoToast
    /\ UNCHANGED <<token, layoutEffect, messages, input, isLoading, turns,
                   uploadVars, layoutVars>>
    /\ UNCHANGED <<storeVars, configVars>>

\* The messages fetchChatHistory sets for a parsed OK response.
HistoryMessages(data, project, id) ==
    LET chatData == IF data.chats.isArray
                    THEN FindChat(data.chats.items, id)
                    ELSE NoChat
        convertedMessages == ConvertHistory(chatData.chat_history)
    IN  IF chatData = NoChat THEN <<WelcomeMessage(project)>>
        ELSE IF Len(convertedMessages) > 0 THEN convertedMessages
        ELSE <<WelcomeMessage(project)>>

\* fetchChatHistory from the settled fetch to its end.
AfterHistoryFetch(req, resp) ==
    /\ net' = net \ {req}
    /\ IF resp.net = "http" /\ resp.ok /\ resp.parses
       THEN /\ messages' =
                HistoryMessages(resp.data, req.closure.project, req.closure.id)
            /\ toast' = NoToast
       ELSE /\ toast' = Toast(<<"Error">>, <<"Failed to load chat history">>,
                              "destructive")
            /\ messages' = <<WelcomeMessage(req.closure.project)>>
    /\ isInitialLoading' = FALSE
    /\ UNCHANGED <<token, route, pageEffect, layoutEffect, input, isLoading,
                   turns, uploadVars, layoutVars>>
    /\ UNCHANGED <<storeVars, configVars>>

ChatDetailPage_fetchChatHistory_settled ==
    \E req \in net :
        /\ Interactive
        /\ req.owner = "fetchChatHistory"
        /\ \E resp \in ChatsResponses : AfterHistoryFetch(req, resp)

ChatDetailPage_formData(userQuery, project, id) ==
    << <<"user_query", userQuery>>, <<"project_name", project>>,
       <<"vector_id", id>> >>

ChatDetailPage_request(tok, userQuery, project, id, turn) ==
    Fetch("ChatDetailPage", "/chat", "POST", Bearer(tok),
          ChatDetailPage_formData(userQuery, project, id), turn,
          Closure(project, id))

\* The form is rendered only once isInitialLoading is false.
ChatDetailPage_handleSubmit ==
    /\ route.page = "detail"
    /\ Interactive
    /\ ~isInitialLoading
    /\ ~SubmitDisabled
    /\ SubmitChat(ChatDetailPage_request(token, input, route.project,
                                         route.id, turns + 1))

ChatDetailPage_handleSubmit_settled ==
    \E req \in net :
        /\ Interactive
        /\ req.owner = "ChatDetailPage"
        /\ \E resp \in ChatResponses(req) : AfterChatFetch(req, resp)

DetailNext ==
    \/ ChatDetailPage_fetchChatHistory
    \/ ChatDetailPage_fetchChatHistory_settled
    \/ ChatDetailPage_handleSubmit
    \/ ChatDetailPage_handleSubmit_settled

\* -------------------------------------------------------------- UploadPage
\* The non-empty file lists one pick or drop can add to a selection that
\* already holds n entries.
NewFileLists(n) ==
    UNION {[1..k -> FilePool] : k \in 1..(MaxFiles - n)}

UploadPage_projectName_onChange ==
    /\ route.page = "upload"
    /\ Interactive
    /\ \E text \in ProjectInputs \ {projectName} : projectName' = text
    /\ toast' = NoToast
    /\ UNCHANGED <<token, route, pageEffect, layoutEffect, net, chatVars,
                   files, isUploading, layoutVars>>
    /\ UNCHANGED <<storeVars, configVars>>

\* setFiles((prevFiles) => [...prevFiles, ...newFiles])
AddFiles(newFiles) ==
    /\ files' = files \o newFiles
    /\ toast' = NoToast
    /\ UNCHANGED <<token, route, pageEffect, layoutEffect, net, chatVars,
                   projectName, isUploading, layoutVars>>
    /\ UNCHANGED <<storeVars, configVars>>

UploadPage_handleFileChange ==
    /\ route.page = "upload"
    /\ Interactive
    /\ Len(files) < MaxFiles
    /\ \E newFiles \in NewFileLists(Len(files)) : AddFiles(newFiles)

UploadPage_handleDrop ==
    /\ route.page = "upload"
    /\ Interactive
    /\ Len(files) < MaxFiles
    /\ \E newFiles \in NewFileLists(Len(files)) : AddFiles(newFiles)

\* prevFiles.filter((_, i) => i !== index)
RemoveAt(list, index) ==
    SubSeq(list, 1, index - 1) \o SubSeq(list, index + 1, Len(list))

UploadPage_removeFile ==
    /\ route.page = "upload"
    /\ Interactive
    /\ \E index \in 1..Len(files) : files' = RemoveAt(files, index)
    /\ toast' = NoToast
    /\ UNCHANGED <<token, route, pageEffect, layoutEffect, net, chatVars,
                   projectName, isUploading, layoutVars>>
    /\ UNCHANGED <<storeVars, configVars>>

\* formData.set in place of formData.append: each file replaces the one
\* before it, and the form keeps the last file only.
FormDataSet(name, selection) ==
    << <<"project_name", name>> >>
        \o (IF selection = <<>> THEN <<>>
            ELSE << <<"files_data", selection[Len(selection)]>> >>)

\* formData.append("project_name", ...) and then one files_data entry per
\* element of files, by files.forEach.
UploadPage_formData(name, selection) ==
    << <<"project_name", name>> >>
        \o [i \in 1..Len(selection) |-> <<"files_data", selection[i]>>]

UploadPage_request(tok, name, selection) ==
    Fetch("UploadPage", "/data-ingest", "POST", Bearer(tok),
          UploadPage_formData(name, selection), 0, Closure(name, Undefined))

\* The submit button is disabled while isUploading.
UploadDisabled == isUploading

\* handleSubmit up to its first await (the fetch).
UploadPage_handleSubmit ==
    /\ route.page = "upload"
    /\ Interactive
    /\ ~UploadDisabled
    /\ IF Trim(projectName) = <<>>
       THEN /\ toast' = Toast(<<"Project name required">>,
                              <<"Please enter a project name">>,
                              "destructive")
            /\ UNCHANGED <<route, isUploading, net>>
       ELSE IF Len(files) = 0
       THEN /\ toast' = Toast(<<"No files selected">>,
                              <<"Please select at least one file to upload">>,
                              "destructive")
            /\ UNCHANGED <<route, isUploading, net>>
       ELSE IF NoToken(token)
       THEN /\ PushLogin
            /\ isUploading' = FALSE
            /\ toast' = NoToast
            /\ UNCHANGED <<net>>
       ELSE /\ isUploading' = TRUE
            /\ net' = net \cup {UploadPage_request(token, projectName, files)}
            /\ toast' = NoToast
            /\ UNCHANGED <<route>>
    /\ UNCHANGED <<token, pageEffect, layoutEffect, chatVars, projectName,
                   files, layoutVars>>
    /\ UNCHANGED <<storeVars, configVars>>

\* ------------------------------------------------ responses to /data-ingest
\* Supported document types (README, Features: File Ingestion).
SupportedTypes == {".pdf", ".docx", ".epub", ".txt", ".pptx", ".xlsx", ".csv"}

FileType(file) == file[Len(file)]

FileOutcome(file, outcome) == [file |-> file, outcome |-> outcome]

\* ingest(project, files[]) -> per-file outcome (spec 4.5): a file of an
\* unsupported type fails with UnsupportedFormat, its siblings succeed.
IngestReport(selection) ==
    [i \in 1..Len(selection) |->
        FileOutcome(selection[i],
                    IF FileType(selection[i]) \in SupportedTypes
                    THEN "success" ELSE "UnsupportedFormat")]

\* The outcomes of one POST /data-ingest the model distinguishes.
UploadResponses(req) ==
    LET report == IngestReport(FormGetAll(req.form, "files_data"))
    IN  { Response("fault", FALSE, 0, FALSE, NoUploadData),
          Response("http", FALSE, 400, TRUE,
                   UploadData(Undefined, <<"Unsupported file type">>, <<>>)),
          Response("http", FALSE, 500, TRUE, NoUploadData),
          Response("http", TRUE, 200, TRUE,
                   UploadData(<<"Data ingested">>, Undefined, report)),
          Response("http", TRUE, 200, TRUE,
                   UploadData(Undefined, Undefined, report)) }

\* The Error the try block of UploadPage.handleSubmit ends with, as its
\* message, or Undefined when it ends without one.
UploadThrown(resp) ==
    IF resp.net = "fault" THEN FetchErrorMessage
    ELSE IF ~resp.parses THEN JsonErrorMessage
    ELSE IF ~resp.ok THEN OrElse(resp.data.detail, <<"Failed to upload files">>)
    ELSE Undefined

\* What the user is shown when the upload settles.
UploadToast(resp) ==
    IF UploadThrown(resp) = Undefined
    THEN Toast(<<"Upload successful">>,
               OrElse(resp.data.message, <<"Files uploaded successfully">>),
               "default")
    ELSE Toast(<<"Upload failed">>, UploadThrown(resp), "destructive")

\* handleSubmit from the settled fetch to its end; on success the router
\* shows the chat page of the project name the submit was made with.  When
\* the dashboard had been left for the login page, the layout is constructed
\* anew with the page, and what the left components awaited reaches none.
AfterUploadFetch(req, resp) ==
    /\ toast' = UploadToast(resp)
    /\ IF UploadThrown(resp) = Undefined
       THEN /\ MountPage(ChatRoute(req.closure.project))
            /\ IF route.page = "login"
               THEN MountLayout /\ net' = {}
               ELSE /\ net' = net \ {req}
                    /\ UNCHANGED <<layoutEffect, layoutVars>>
       ELSE /\ isUploading' = FALSE
            /\ net' = net \ {req}
            /\ UNCHANGED <<route, pageEffect, chatVars, projectName, files,
                           layoutEffect, layoutVars>>
    /\ token' = token
    /\ UNCHANGED <<storeVars, configVars>>

UploadPage_handleSubmit_settled ==
    \E req \in net :
        /\ Interactive
        /\ req.owner = "UploadPage"
        /\ \E resp \in UploadResponses(req) : AfterUploadFetch(req, resp)

UploadNext ==
    \/ UploadPage_projectName_onChange
    \/ UploadPage_handleFileChange
    \/ UploadPage_handleDrop
    \/ UploadPage_removeFile
    \/ UploadPage_handleSubmit
    \/ UploadPage_handleSubmit_settled

\* --------------------------------------------------------- DashboardLayout
fetchChats_request(tok) ==
    Fetch("fetchChats", "/get_chats", "GET", Bearer(tok), <<>>, 0,
          Closure(Undefined, Undefined))

\* The mount effect of DashboardLayout, up to the fetch of fetchChats.  A
\* missing token returns before fetchChats is started.
DashboardLayout_effect ==
    /\ layoutEffect = "todo"
    /\ pageEffect = "done"
    /\ layoutEffect' = "done"
    /\ IF NoToken(token)
       THEN PushLogin /\ net' = net
       ELSE route' = route /\ net' = net \cup {fetchChats_request(token)}
    /\ toast' = NoToast
    /\ UNCHANGED <<token, pageEffect, chatVars, uploadVars, layoutVars>>
    /\ UNCHANGED <<storeVars, configVars>>

\* encodeURI of a path segment: window.location.pathname holds the segment
\* percent-encoded.
EncodeSegment(segment) ==
    [i \in 1..Len(segment) |-> IF segment[i] = " " THEN "%20" ELSE segment[i]]

\* window.location.pathname.split("/") for the route shown.
PathParts(r) ==
    CASE r.page = "chat" ->
            << <<>>, <<"dashboard">>, <<"chat">>, EncodeSegment(r.project) >>
      [] r.page = "detail" ->
            << <<>>, <<"dashboard">>, <<"chat">>, EncodeSegment(r.project),
               EncodeSegment(r.id) >>
      [] r.page = "upload" -> << <<>>, <<"dashboard">>, <<"upload">> >>
      [] OTHER -> << <<>>, <<"login">> >>

\* Array.prototype.indexOf, counted from 1; 0 when the element is absent.
IndexOf(list, x) ==
    IF \E i \in 1..Len(list) : list[i] = x
    THEN CHOOSE i \in 1..Len(list) :
            /\ list[i] = x
            /\ \A j \in 1..(i - 1) : list[j] # x
    ELSE 0

DefaultChat(currentProject) ==
    Chat(<<"default">>, currentProject, <<"default">>, <<>>,
         <<"New conversation">>)

\* Create a default chat for the current project if we're in a project:
\* the chats to set, or keep when the path names no project.
WithDefaultChat(keep, r) ==
    LET pathParts == PathParts(r)
        projectIndex == IndexOf(pathParts, <<"chat">>)
    IN  IF projectIndex # 0 /\ Len(pathParts) > projectIndex
        THEN <<DefaultChat(pathParts[projectIndex + 1])>>
        ELSE keep

GeneratedChatId == <<"chat-generated">>

\* Normalize the chat objects to ensure they have the required properties
NormalizeChat(chat) ==
    LET chatId == OrElse(chat.id, OrElse(chat.vector_id, GeneratedChatId))
        lastMessage ==
            IF Len(chat.chat_history) > 0
            THEN OrElse(chat.chat_history[1].user_query,
                        <<"New conversation">>)
            ELSE <<"New conversation">>
    IN  [chat EXCEPT !.id = chatId, !.last_message = lastMessage]

\* Handle the specific response format from your API
ChatsList(data) ==
    IF data.chats.isArray THEN data.chats.items
    ELSE IF data.self.isArray THEN data.self.items
    ELSE <<>>

\* The status test written for another status: 403 in place of 401.
Forbidden(resp) == resp.net = "http" /\ ~resp.ok /\ resp.status = 403

\* if (!response.ok) { if (response.status === 401) ...
Unauthorized(resp) == resp.net = "http" /\ ~resp.ok /\ resp.status = 401

\* The Error the try block of fetchChats ends with, as its message, or
\* Undefined when it ends without one (a 401 returns, it does not throw).
ChatsThrown(resp) ==
    IF resp.net = "fault" THEN FetchErrorMessage
    ELSE IF ~resp.ok
         THEN IF Unauthorized(resp) THEN Undefined
              ELSE <<"Failed to fetch chats: ", ToString(resp.status)>>
    ELSE IF ~resp.parses THEN JsonErrorMessage
    ELSE Undefined

\* fetchChats from the settled fetch to its end.
AfterChatsFetch(req, resp) ==
    /\ net' = net \ {req}
    /\ IF Unauthorized(resp)
       THEN /\ token' = Null
            /\ PushLogin
            /\ toast' = NoToast
            /\ UNCHANGED <<chats, error>>
       ELSE IF ChatsThrown(resp) # Undefined
       THEN /\ error' = ChatsThrown(resp)
            /\ toast' = Toast(<<"Error">>,
                              <<"Failed to load chat history: ">>
                                  \o ChatsThrown(resp),
                              "destructive")
            /\ chats' = WithDefaultChat(chats, route)
            /\ UNCHANGED <<token, route>>
       ELSE /\ LET normalizedChats ==
                    [i \in 1..Len(ChatsList(resp.data)) |->
                        NormalizeChat(ChatsList(resp.data)[i])]
               IN  chats' = IF Len(normalizedChats) = 0
                            THEN WithDefaultChat(normalizedChats, route)
                            ELSE normalizedChats
            /\ toast' = NoToast
            /\ UNCHANGED <<token, route, error>>
    /\ chatsLoading' = FALSE
    /\ UNCHANGED <<pageEffect, layoutEffect, chatVars, uploadVars>>
    /\ UNCHANGED <<storeVars, configVars>>

DashboardLayout_fetchChats_settled ==
    \E req \in net :
        /\ Interactive
        /\ req.owner = "fetchChats"
        /\ \E resp \in ChatsResponses : AfterChatsFetch(req, resp)

\* Property names that every object literal inherits from Object.prototype:
\* acc[name] is a truthy value, with no push, before any chat is grouped.
ObjectPrototypeKeys ==
    { <<"constructor">>, <<"toString">>, <<"valueOf">>, <<"hasOwnProperty">>,
      <<"__proto__">> }

\* The accumulator of the reduce: the own properties of acc in insertion
\* order, each with its array, and whether a callback has thrown.
Groups(thrown, entries) == [thrown |-> thrown, entries |-> entries]

GroupEntry(key, list) == [key |-> key, chats |-> list]

\* The position of the own property key in entries, 0 when there is none.
OwnIndex(entries, key) ==
    IF \E k \in 1..Len(entries) : entries[k].key = key
    THEN CHOOSE k \in 1..Len(entries) : entries[k].key = key
    ELSE 0

\* The callback of the reduce: acc[projectName] is made an empty array when
\* it is falsy, and the chat is pushed to it; pushing to an inherited
\* property, which is no array, throws a TypeError.
GroupChat(acc, chat) ==
    LET name == OrElse(chat.project_name, <<"Default Project">>)
        own == OwnIndex(acc.entries, name)
    IN  IF own # 0
        THEN Groups(FALSE,
                    [acc.entries EXCEPT
                        ![own] = GroupEntry(name, Append(acc.entries[own].chats,
                                                         chat))])
        ELSE IF name \in ObjectPrototypeKeys
        THEN Groups(TRUE, acc.entries)
        ELSE Groups(FALSE, Append(acc.entries, GroupEntry(name, <<chat>>)))

RECURSIVE Reduce(_, _)
Reduce(acc, list) ==
    IF list = <<>> \/ acc.thrown THEN acc
    ELSE Reduce(GroupChat(acc, Head(list)), Tail(list))

\* Group chats by project name
chatsByProject == Reduce(Groups(FALSE, <<>>), chats)

\* The text of a sidebar item: last_message cut to thirty characters, or
\* "New Chat" (a text of the model holds one character per element where
\* its length matters).
ItemLabel(last_message) ==
    IF ~Falsy(last_message) /\ Len(last_message) > 30
    THEN SubSeq(last_message, 1, 30) \o <<"...">>
    ELSE OrElse(last_message, <<"New Chat">>)

\* A SidebarMenuItem: its text and the route its onClick pushes.
MenuItem(project, chat) ==
    [label |-> ItemLabel(chat.last_message),
     href |-> DetailRoute(project, chat.vector_id)]

\* The items of the SidebarMenu, group after group.
RECURSIVE MenuItems(_)
MenuItems(entries) ==
    IF entries = <<>> THEN <<>>
    ELSE [k \in 1..Len(Head(entries).chats) |->
             MenuItem(Head(entries).key, Head(entries).chats[k])]
         \o MenuItems(Tail(entries))

SidebarView(view, items) == [view |-> view, items |-> items]

\* What the sidebar renders under "New Project".
SidebarContent ==
    IF chatsByProject.thrown THEN SidebarView("TypeError", <<>>)
    ELSE IF chatsLoading THEN SidebarView("skeleton", <<>>)
    ELSE IF ~Falsy(error) THEN SidebarView("error", <<>>)
    ELSE IF Len(chatsByProject.entries) = 0 THEN SidebarView("empty", <<>>)
    ELSE SidebarView("menu", MenuItems(chatsByProject.entries))

DashboardLayout_handleLogout ==
    /\ Interactive
    /\ route.page # "login"
    /\ token' = Null
    /\ PushLogin
    /\ toast' = Toast(<<"Logged out">>,
                      <<"You've been logged out successfully.">>, "default")
    /\ UNCHANGED <<pageEffect, layoutEffect, net, chatVars, uploadVars,
                   layoutVars>>
    /\ UNCHANGED <<storeVars, configVars>>

LayoutNext ==
    \/ DashboardLayout_effect
    \/ DashboardLayout_fetchChats_settled
    \/ DashboardLayout_handleLogout

\* ------------------------------------------------- the per-project store
\* The vector store adapter, the registry and the ingestion pipeline's store
\* stage, as the specification states them (4.4, 4.5, 5).
Projects == {<<"p">>, <<"r">>}
Ingests == 1..MaxIngests

NoCollection == <<>>

\* One collection id for whatever project: no namespace per project.
CollectionIdShared(project) == <<"collection">>

\* The collection id of a project: deterministic from the project name.
CollectionId(project) == <<"collection-">> \o project

CollectionIds == {CollectionId(project) : project \in Projects}

\* A record of the store: a chunk with its generated id (the ingest call and
\* the chunk's ordinal position) and its source project.
Chunk(i, ordinal, project) == [id |-> <<i, ordinal>>, project |-> project]

\* A collection: the records reads see, and those an upsert in progress has
\* written and not yet published.
Collection(visible, pending) == [visible |-> visible, pending |-> pending]

\* Reads that see the records of an upsert in progress too.
VisibleWithPending(col) == collections[col].visible \cup collections[col].pending

\* The records of a collection that a read sees.
Visible(col) == collections[col].visible

\* The records of col that the upsert of ingest call i has written.
PendingOf(col, i) == {r \in collections[col].pending : r.id[1] = i}

\* The holders of a project's write lease.
Free == <<"free">>
IngestHolder(i) == <<"ingest", i>>
DeleteHolder == <<"delete_collection">>

IngestCall(pc, project, file, written, outcome) ==
    [pc |-> pc, project |-> project, file |-> file, written |-> written,
     outcome |-> outcome]

DeleteCall(pc, project) == [pc |-> pc, project |-> project]

SearchResult(project, outcome, hits) ==
    [project |-> project, outcome |-> outcome, hits |-> hits]

NoSearch == SearchResult(Undefined, "none", {})

StoreInit ==
    /\ registry = [project \in Projects |-> NoCollection]
    /\ collections = [col \in CollectionIds |-> Collection({}, {})]
    /\ mutex = [project \in Projects |-> Free]
    /\ ingests = [i \in Ingests |->
                     IngestCall("idle", Undefined, Undefined, 0, "none")]
    /\ deleter = DeleteCall("idle", Undefined)
    /\ lastSearch = NoSearch

\* ingest(project, files[]) is called: the pipeline of one file starts.
ingest(i) ==
    /\ ingests[i].pc = "idle"
    /\ \E project \in Projects, file \in FilePool :
           ingests' = [ingests EXCEPT
                          ![i] = IngestCall("waiting", project, file, 0, "none")]
    /\ lastSearch' = NoSearch
    /\ UNCHANGED <<registry, collections, mutex, deleter, frontVars, configVars>>

\* The registry grants the project's write lease to one writer at a time.
ingest_acquire(i) ==
    /\ ingests[i].pc = "waiting"
    /\ mutex[ingests[i].project] = Free
    /\ mutex' = [mutex EXCEPT ![ingests[i].project] = IngestHolder(i)]
    /\ ingests' = [ingests EXCEPT ![i].pc = "load"]
    /\ lastSearch' = NoSearch
    /\ UNCHANGED <<registry, collections, deleter, frontVars, configVars>>

\* ensure_collection(project): creates the collection if absent, reuses it
\* if present.
ensure_collection(project) ==
    IF registry[project] = NoCollection
    THEN [registry EXCEPT ![project] = CollectionId(project)]
    ELSE registry

\* Load, chunk, embed: a file of an unsupported type fails here; any other
\* goes on to the store stage, for which the collection is ensured.
ingest_load(i) ==
    /\ ingests[i].pc = "load"
    /\ IF FileType(ingests[i].file) \in SupportedTypes
       THEN /\ registry' = ensure_collection(ingests[i].project)
            /\ ingests' = [ingests EXCEPT ![i].pc = "upsert"]
       ELSE /\ registry' = registry
            /\ ingests' = [ingests EXCEPT ![i].pc = "release",
                                          ![i].outcome = "UnsupportedFormat"]
    /\ lastSearch' = NoSearch
    /\ UNCHANGED <<collections, mutex, deleter, frontVars, configVars>>

\* upsert writes the next record of the batch; it is not yet published.
upsert_write(i) ==
    /\ ingests[i].pc = "upsert"
    /\ ingests[i].written < ChunksPerFile
    /\ LET col == registry[ingests[i].project]
           record == Chunk(i, ingests[i].written + 1, ingests[i].project)
       IN  collections' =
               [collections EXCEPT
                   ![col] = Collection(collections[col].visible,
                                       collections[col].pending \cup {record})]
    /\ ingests' = [ingests EXCEPT ![i].written = ingests[i].written + 1]
    /\ lastSearch' = NoSearch
    /\ UNCHANGED <<registry, mutex, deleter, frontVars, configVars>>

\* upsert ends well: all records of the batch land at once.
upsert_commit(i) ==
    /\ ingests[i].pc = "upsert"
    /\ ingests[i].written = ChunksPerFile
    /\ LET col == registry[ingests[i].project]
       IN  collections' =
               [collections EXCEPT
                   ![col] = Collection(
                       collections[col].visible \cup PendingOf(col, i),
                       collections[col].pending \ PendingOf(col, i))]
    /\ ingests' = [ingests EXCEPT ![i].pc = "release",
                                  ![i].outcome = "success"]
    /\ lastSearch' = NoSearch
    /\ UNCHANGED <<registry, mutex, deleter, frontVars, configVars>>

\* A failed upsert that leaves what it had written for reads to see.
PartialWriteKept(col, i) ==
    Collection(collections[col].visible \cup PendingOf(col, i),
               collections[col].pending \ PendingOf(col, i))

\* The collection after the upsert of ingest call i has failed: what the
\* call had written is gone, what reads saw before is as it was.
RolledBack(col, i) ==
    Collection(collections[col].visible,
               collections[col].pending \ PendingOf(col, i))

\* upsert fails, or the call is cancelled, mid-batch: none of its records
\* land.
upsert_fail(i) ==
    /\ ingests[i].pc = "upsert"
    /\ LET col == registry[ingests[i].project]
       IN  collections' = [collections EXCEPT ![col] = RolledBack(col, i)]
    /\ ingests' = [ingests EXCEPT ![i].pc = "release",
                                  ![i].outcome = "StoreError"]
    /\ lastSearch' = NoSearch
    /\ UNCHANGED <<registry, mutex, deleter, frontVars, configVars>>

\* The file's outcome is reported and the lease given back.
ingest_release(i) ==
    /\ ingests[i].pc = "release"
    /\ mutex' = [mutex EXCEPT ![ingests[i].project] = Free]
    /\ ingests' = [ingests EXCEPT ![i].pc = "done"]
    /\ lastSearch' = NoSearch
    /\ UNCHANGED <<registry, collections, deleter, frontVars, configVars>>

\* delete_collection(project) is called.
delete_collection ==
    /\ deleter.pc = "idle"
    /\ \E project \in Projects : deleter' = DeleteCall("waiting", project)
    /\ lastSearch' = NoSearch
    /\ UNCHANGED <<registry, collections, mutex, ingests, frontVars, configVars>>

\* A delete is a write: it takes the project's lease as an ingest does.
delete_acquire ==
    /\ deleter.pc = "waiting"
    /\ mutex[deleter.project] = Free
    /\ mutex' = [mutex EXCEPT ![deleter.project] = DeleteHolder]
    /\ deleter' = DeleteCall("drop", deleter.project)
    /\ lastSearch' = NoSearch
    /\ UNCHANGED <<registry, collections, ingests, frontVars, configVars>>

\* All records of the project go and the lease is given back; a project
\* with no collection is left as it is.
delete_drop ==
    /\ deleter.pc = "drop"
    /\ IF registry[deleter.project] = NoCollection
       THEN UNCHANGED <<registry, collections>>
       ELSE /\ collections' =
                   [collections EXCEPT
                       ![registry[deleter.project]] = Collection({}, {})]
            /\ registry' = [registry EXCEPT ![deleter.project] = NoCollection]
    /\ mutex' = [mutex EXCEPT ![deleter.project] = Free]
    /\ deleter' = DeleteCall("idle", Undefined)
    /\ lastSearch' = NoSearch
    /\ UNCHANGED <<ingests, frontVars, configVars>>

\* The k nearest records among those a read sees: which ones they are is the
\* similarity's and the re-ranker's choice.
TopHits(records) ==
    {hits \in SUBSET records :
        Cardinality(hits) = IF Cardinality(records) < TopK
                            THEN Cardinality(records) ELSE TopK}

\* search against a project, of no lease: ProjectNotFound for a project
\* with no collection, else k of the records its collection shows.
search ==
    /\ \E project \in Projects :
           IF registry[project] = NoCollection
           THEN lastSearch' = SearchResult(project, "ProjectNotFound", {})
           ELSE \E hits \in TopHits(Visible(registry[project])) :
                    lastSearch' = SearchResult(project, "ok", hits)
    /\ UNCHANGED <<registry, collections, mutex, ingests, deleter, frontVars, configVars>>

StoreNext ==
    \/ \E i \in Ingests :
           \/ ingest(i)
           \/ ingest_acquire(i)
           \/ ingest_load(i)
           \/ upsert_write(i)
           \/ upsert_commit(i)
           \/ upsert_fail(i)
           \/ ingest_release(i)
    \/ delete_collection
    \/ delete_acquire
    \/ delete_drop
    \/ search

\* ------------------------------------------------------------ specification
\* The front end, with the store at rest.
\* ------------------------------------------------------------------- config
\* Host names the page may be served from, in pieces that a search text
\* either holds whole or not at all.
Hostnames ==
    { <<"localhost">>,
      <<"my", "localhost", ".", "dev">>,
      <<"127", ".", "0", ".", "0", ".", "1">>,
      <<"my-app", ".", "vercel", ".", "app">>,
      <<"vercel", ".", "app", ".", "example", ".", "com">>,
      <<"app", ".", "example", ".", "com">>,
      <<"vercel", ".", "example", ".", "app">>,
      <<"127", ".", "0", ".", "0", ".", "2">> }

\* Values of the environment variable at build time.
EnvValues == {Undefined, <<>>, <<"https://api.example.com">>}

\* A search that looks at the start of the text alone.
StartsWith(s, searchString) ==
    /\ Len(searchString) <= Len(s)
    /\ SubSeq(s, 1, Len(searchString)) = searchString

\* String.prototype.includes
Includes(s, searchString) ==
    \E at \in 0..Len(s) :
        /\ at + Len(searchString) <= Len(s)
        /\ SubSeq(s, at + 1, at + Len(searchString)) = searchString

\* API URL configuration
API_URL == OrElse(NEXT_PUBLIC_API_URL, <<"http://localhost:8000">>)

\* Check if we're in a preview environment (Vercel preview, etc.)
isPreviewEnvironment ==
    IF ~isBrowser THEN FALSE
    ELSE \/ Includes(hostname, <<"vercel", ".", "app">>)
         \/ Includes(hostname, <<"localhost">>)
         \/ Includes(hostname, <<"127", ".", "0", ".", "0", ".", "1">>)

NoRequest == [url |-> Undefined, method |-> Undefined, headers |-> {}]

\* fetch(`${API_URL}`, { method: "GET", signal, headers })
isApiReachable_request ==
    [url |-> API_URL, method |-> "GET",
     headers |-> { <<"Cache-Control", "no-cache, no-store, must-revalidate">>,
                   <<"Pragma", "no-cache">>, <<"Expires", "0">> }]

\* A call of isApiReachable: where it stands ("idle" before the first call,
\* "fetch" while it awaits, "resolved"), what its promise resolved to, its
\* request while pending, its abort timer, and the calls and the requests
\* made so far.
Probe(pc, result, request, timer, calls, sent) ==
    [pc |-> pc, result |-> result, request |-> request, timer |-> timer,
     calls |-> calls, sent |-> sent]

\* What the fetch of isApiReachable settles with.
ProbeResponses ==
    { Response("fault", FALSE, 0, FALSE, EmptyObject),
      Response("http", FALSE, 503, FALSE, EmptyObject),
      Response("http", TRUE, 200, TRUE, EmptyObject) }

ConfigInit ==
    /\ isBrowser \in BOOLEAN
    /\ hostname \in IF isBrowser THEN Hostnames ELSE {Undefined}
    /\ NEXT_PUBLIC_API_URL \in EnvValues
    /\ apiProbe = Probe("idle", Undefined, NoRequest, "unset", 0, 0)

\* isApiReachable() up to its first await, or to its return.
isApiReachable ==
    /\ apiProbe.pc \in {"idle", "resolved"}
    /\ apiProbe.calls < MaxProbes
    /\ apiProbe' =
           IF ~isBrowser
           THEN Probe("resolved", FALSE, NoRequest, "unset",
                      apiProbe.calls + 1, apiProbe.sent)
           ELSE IF isPreviewEnvironment
           THEN Probe("resolved", FALSE, NoRequest, "unset",
                      apiProbe.calls + 1, apiProbe.sent)
           ELSE Probe("fetch", Undefined, isApiReachable_request, "armed",
                      apiProbe.calls + 1, apiProbe.sent + 1)
    /\ UNCHANGED <<isBrowser, hostname, NEXT_PUBLIC_API_URL>>
    /\ UNCHANGED <<frontVars, storeVars>>

\* The settled fetch without the catch block: a rejected fetch rejects the
\* promise of isApiReachable.
AfterProbeFetchUncaught(resp) ==
    /\ apiProbe' =
           IF resp.net = "http"
           THEN [apiProbe EXCEPT !.pc = "resolved", !.result = resp.ok,
                                 !.request = NoRequest, !.timer = "cleared"]
           ELSE [apiProbe EXCEPT !.pc = "rejected", !.request = NoRequest]
    /\ UNCHANGED <<isBrowser, hostname, NEXT_PUBLIC_API_URL>>
    /\ UNCHANGED <<frontVars, storeVars>>

\* isApiReachable from the settled fetch to its return: a response clears
\* the timer and resolves to response.ok; a rejected fetch resolves to false
\* and leaves the timer armed.
AfterProbeFetch(resp) ==
    /\ apiProbe' =
           IF resp.net = "http"
           THEN [apiProbe EXCEPT !.pc = "resolved", !.result = resp.ok,
                                 !.request = NoRequest, !.timer = "cleared"]
           ELSE [apiProbe EXCEPT !.pc = "resolved", !.result = FALSE,
                                 !.request = NoRequest]
    /\ UNCHANGED <<isBrowser, hostname, NEXT_PUBLIC_API_URL>>
    /\ UNCHANGED <<frontVars, storeVars>>

isApiReachable_settled ==
    /\ apiProbe.pc = "fetch"
    /\ \E resp \in ProbeResponses : AfterProbeFetch(resp)

\* setTimeout(() => controller.abort(), 3000) fires: a pending fetch is
\* aborted and rejects, so the call resolves to false; a fetch that has
\* rejected already is not touched.
isApiReachable_timeout ==
    /\ apiProbe.timer = "armed"
    /\ apiProbe' =
           IF apiProbe.pc = "fetch"
           THEN [apiProbe EXCEPT !.pc = "resolved", !.result = FALSE,
                                 !.request = NoRequest, !.timer = "fired"]
           ELSE [apiProbe EXCEPT !.timer = "fired"]
    /\ UNCHANGED <<isBrowser, hostname, NEXT_PUBLIC_API_URL>>
    /\ UNCHANGED <<frontVars, storeVars>>

ConfigNext ==
    \/ isApiReachable
    \/ isApiReachable_settled
    \/ isApiReachable_timeout

\* -------------------------------------------------------------- navigation
\* The routes of the chat pages the user moves between: the sidebar items
\* (router.push of a detail route) and the browser history.
NavRoutes ==
    {ChatRoute(p) : p \in ProjectParams \cup {<<"q">>}}
        \cup {DetailRoute(p, i) : p \in ProjectParams, i \in IdParams}

\* The components of a page, which a change of route unmounts.
PageOwners == {"ChatPage", "ChatDetailPage", "fetchChatHistory", "UploadPage"}

\* The owner of a request whose component has been unmounted.
Unmounted(owner) ==
    CASE owner = "ChatPage" -> "ChatPage (unmounted)"
      [] owner = "ChatDetailPage" -> "ChatDetailPage (unmounted)"
      [] owner = "fetchChatHistory" -> "fetchChatHistory (unmounted)"
      [] owner = "UploadPage" -> "UploadPage (unmounted)"
      [] OTHER -> owner

Orphans == {req \in net : req.owner \in {Unmounted(o) : o \in PageOwners}}

\* The requests in flight if the page that awaits them stayed mounted over
\* the change of route.
KeepMounted(requests) == requests

\* The requests in flight once the page is unmounted: the fetches go on, and
\* the handlers that await them belong to a component that is no more.
Unmount(requests) ==
    {[req EXCEPT !.owner = Unmounted(req.owner)] : req \in requests}

\* The route changes inside the dashboard: the page for the new segment is
\* constructed anew (useState initial values, mount effect to run), the
\* layout stays as it is, the fetches of the page left stay in flight.
Navigate ==
    /\ Interactive
    /\ route.page # "login"
    /\ Cardinality(Orphans) + Cardinality({req \in net : req.owner \in PageOwners})
           <= MaxOrphans
    /\ \E r \in NavRoutes \ {route} : MountPage(r)
    /\ net' = Unmount(net)
    /\ toast' = NoToast
    /\ UNCHANGED <<token, layoutEffect, layoutVars>>
    /\ UNCHANGED <<storeVars, configVars>>

\* A handler of an unmounted page from its settled fetch to its end: its
\* setState calls reach no component, its toast is raised.
AfterUnmountedFetch(req, resp) ==
    /\ net' = net \ {req}
    /\ toast' =
           IF req.endpoint = "/chat"
           THEN IF ChatThrown(resp) = Undefined THEN NoToast
                ELSE Toast(<<"Error">>, ChatThrown(resp), "destructive")
           ELSE IF resp.net = "http" /\ resp.ok /\ resp.parses THEN NoToast
                ELSE Toast(<<"Error">>, <<"Failed to load chat history">>,
                           "destructive")
    /\ UNCHANGED <<token, route, pageEffect, layoutEffect, chatVars,
                   uploadVars, layoutVars>>
    /\ UNCHANGED <<storeVars, configVars>>

Unmounted_settled ==
    \E req \in Orphans :
        /\ Interactive
        /\ \E resp \in IF req.endpoint = "/chat" THEN ChatResponses(req)
                       ELSE ChatsResponses :
               AfterUnmountedFetch(req, resp)

NavNext ==
    \/ Navigate
    \/ Unmounted_settled
    \/ ChatNext
    \/ DetailNext

\* The front end in a browser, served from app.example.com.
ConfigAtRest ==
    /\ ConfigInit
    /\ isBrowser
    /\ hostname = <<"app", ".", "example", ".", "com">>
    /\ NEXT_PUBLIC_API_URL = <<"https://api.example.com">>

Init == FrontInit /\ StoreInit /\ ConfigAtRest

Next ==
    \/ StorageChange
    \/ OpenDashboard
    \/ ChatNext
    \/ DetailNext
    \/ UploadNext
    \/ LayoutNext

Spec == Init /\ [][Next]_vars

\* The store under its callers, with the front end at rest on the upload page.
StoreSpecInit ==
    /\ FrontInit
    /\ token = Null
    /\ route = UploadRoute
    /\ StoreInit
    /\ ConfigAtRest

StoreSpec == StoreSpecInit /\ [][StoreNext]_vars

\* The chat pages under changes of route, with a token stored: a chat page
\* has just been constructed in a dashboard whose layout has loaded the chat
\* list.
NavSpecInit ==
    /\ token = "tokA"
    /\ \E r \in NavRoutes :
           /\ route = r
           /\ pageEffect = "todo"
    /\ layoutEffect = "done"
    /\ net = {}
    /\ toast = NoToast
    /\ messages = <<>>
    /\ input = <<>>
    /\ isLoading = FALSE
    /\ isInitialLoading = TRUE
    /\ turns = 0
    /\ projectName = <<>>
    /\ files = <<>>
    /\ isUploading = FALSE
    /\ chats = <<NormalizeChat(StoredChat), NormalizeChat(EmptyChat),
                 NormalizeChat(SecondChat)>>
    /\ chatsLoading = FALSE
    /\ error = Undefined
    /\ StoreInit
    /\ ConfigAtRest

NavSpec == NavSpecInit /\ [][NavNext]_vars

\* The calls of isApiReachable in every environment, with the front end at
\* rest on the upload page.
ConfigSpecInit ==
    /\ FrontInit
    /\ token = Null
    /\ route = UploadRoute
    /\ StoreInit
    /\ ConfigInit

ConfigSpec == ConfigSpecInit /\ [][ConfigNext]_vars

\* Every fetch() settles: a request in flight is answered or fails, and the
\* handler that awaits it runs on.
FetchesSettle ==
    /\ WF_vars(ChatPage_handleSubmit_settled)
    /\ WF_vars(ChatDetailPage_handleSubmit_settled)
    /\ WF_vars(ChatDetailPage_fetchChatHistory_settled)
    /\ WF_vars(UploadPage_handleSubmit_settled)
    /\ WF_vars(DashboardLayout_fetchChats_settled)

\* React runs the mount effects of the components it has committed.
EffectsRun ==
    /\ WF_vars(ChatPage_welcomeEffect)
    /\ WF_vars(ChatDetailPage_fetchChatHistory)
    /\ WF_vars(DashboardLayout_effect)

\* One visit of the dashboard, from its load to the push of /login.
FairInit ==
    /\ Init
    /\ token \in {"", "tokA"}
    /\ route \in {ChatRoute(<<"p">>), DetailRoute(<<"p">>, <<"c1">>),
                   UploadRoute}

\* The steps that set or clear a busy flag, and those that lead to them.
FairNext ==
    \/ StorageChange
    \/ ChatNext
    \/ DetailNext
    \/ UploadPage_projectName_onChange
    \/ UploadPage_handleFileChange
    \/ UploadPage_handleSubmit
    \/ UploadPage_handleSubmit_settled
    \/ DashboardLayout_effect
    \/ DashboardLayout_fetchChats_settled

\* The front end over a network on which every fetch settles.
FairSpec == FairInit /\ [][FairNext]_vars /\ EffectsRun /\ FetchesSettle

\* ------------------------------------------------------------------- claims
\* A text with a character that is no white space.
NonBlank(s) == \E i \in 1..Len(s) : s[i] # " "

ProtectedEndpoints == {"/chat", "/get_chats", "/data-ingest"}

\* A step of a handler that has passed its input checks and stands at its
\* token check.
ReachesTokenCheck ==
    \/ ChatPage_handleSubmit /\ NonBlank(input)
    \/ ChatDetailPage_handleSubmit /\ NonBlank(input)
    \/ ChatDetailPage_fetchChatHistory
    \/ UploadPage_handleSubmit /\ NonBlank(projectName) /\ files # <<>>
    \/ DashboardLayout_effect

\* C1: every request a step sends goes to a protected endpoint with the
\* header value "Bearer " followed by the token local storage holds at that
\* step, which is a stored, non-empty token; and a handler that reaches its
\* token check while no token is stored sends nothing and shows /login.
AuthorizedRequests ==
    [][ /\ \A req \in net' \ net :
            /\ req.endpoint \in ProtectedEndpoints
            /\ token # Null /\ token # ""
            /\ req.authorization = <<"Bearer ", token>>
        /\ (ReachesTokenCheck /\ (token = Null \/ token = ""))
              => (net' = net /\ route' = LoginRoute)
      ]_vars

\* Two requests in flight, each with the token stored when it was sent.
AuthorizedRequestsWitness ==
    \E r1, r2 \in net :
        /\ r1.endpoint = "/get_chats"
        /\ r1.authorization = <<"Bearer ", "tokA">>
        /\ r2.endpoint = "/chat"
        /\ r2.authorization = <<"Bearer ", "tokB">>
        /\ token = "tokB"

\* C2: a step that sends a /chat request sends the typed text, which is not
\* blank, as user_query, appends the user message with that same text, sends
\* the route's project as project_name, and sends vector_id exactly when the
\* route has an id (then that id); a submit of a blank input sends nothing
\* and leaves the messages as they are.
ChatRequestPayload ==
    [][ /\ \A req \in net' \ net :
            req.endpoint = "/chat" =>
                /\ NonBlank(input)
                /\ FormGetAll(req.form, "user_query") = <<input>>
                /\ Len(messages') = Len(messages) + 1
                /\ SubSeq(messages', 1, Len(messages)) = messages
                /\ messages'[Len(messages')].role = "user"
                /\ messages'[Len(messages')].content = input
                /\ FormGetAll(req.form, "project_name") = <<route.project>>
                /\ FormGetAll(req.form, "vector_id") =
                       IF route.id = Undefined THEN <<>> ELSE <<route.id>>
        /\ ((ChatPage_handleSubmit \/ ChatDetailPage_handleSubmit)
                /\ ~NonBlank(input))
              => (net' = net /\ messages' = messages)
      ]_vars

\* A continued conversation's request in flight, with its id and its query.
ChatRequestPayloadWitness ==
    \E req \in net :
        /\ req.endpoint = "/chat"
        /\ FormGetAll(req.form, "vector_id") = << <<"c9">> >>
        /\ FormGetAll(req.form, "user_query") = << <<" ", "q">> >>
        /\ messages[Len(messages)].content = <<" ", "q">>
        /\ route = DetailRoute(<<"p">>, <<"c9">>)

\* An assistant message of this page's session that shows the answer of a
\* response, which came with the conversation's id.
Answered ==
    \E i \in 1..Len(messages) :
        /\ messages[i].role = "assistant"
        /\ messages[i].turn >= 1
        /\ messages[i].content = <<"ans">>

\* C3: on the page of a conversation started with no id, a query sent after
\* an answer has been received carries the conversation id that answer came
\* with.
FollowUpCarriesConversationId ==
    [][ \A req \in net' \ net :
            (req.endpoint = "/chat" /\ route.page = "chat" /\ Answered)
                => FormGetAll(req.form, "vector_id") = <<NewConversationId>>
      ]_vars

\* A follow-up of an answered first turn in flight on the new-chat page.
FollowUpWitness ==
    /\ route.page = "chat"
    /\ Answered
    /\ \E req \in net : req.endpoint = "/chat" /\ req.turn = 2

\* A response that yields no answer: the fetch fails, the status is not OK,
\* the body does not parse, or the body holds no text in any field.
YieldsNoAnswer(resp) ==
    \/ resp.net = "fault"
    \/ ~resp.ok
    \/ ~resp.parses
    \/ /\ resp.data.str = Undefined
       /\ \A f \in {"chatbot_answer", "response", "answer", "text"} :
              resp.data[f] = Undefined \/ resp.data[f] = <<>>

\* C4: when the response to a /chat request yields no answer, the step that
\* handles it raises an error toast and adds no message to the conversation.
FailedChatAddsNoMessage ==
    [][ \A req \in net : \A resp \in ChatResponses(req) :
            (req.endpoint = "/chat" /\ AfterChatFetch(req, resp)
                /\ YieldsNoAnswer(resp))
                => (messages' = messages /\ toast'.variant = "destructive")
      ]_vars

\* A text that no response held stands in the conversation as a reply.
PlaceholderShown ==
    \E i \in 1..Len(messages) :
        /\ messages[i].role = "assistant"
        /\ messages[i].content = FallbackAnswer

\* C5: the reply shown for an OK response that parses is the text of its
\* chatbot_answer field; a response without that field raises an error toast
\* and adds no message.
AnswerFromOneField ==
    [][ \A req \in net : \A resp \in ChatResponses(req) :
            (req.endpoint = "/chat" /\ AfterChatFetch(req, resp)
                /\ resp.net = "http" /\ resp.ok /\ resp.parses)
                => IF resp.data.chatbot_answer # Undefined
                   THEN /\ Len(messages') = Len(messages) + 1
                        /\ messages'[Len(messages')].role = "assistant"
                        /\ messages'[Len(messages')].content =
                               resp.data.chatbot_answer
                   ELSE /\ messages' = messages
                        /\ toast'.variant = "destructive"
      ]_vars

\* A text read from another field than chatbot_answer stands as a reply.
GuessedFieldShown ==
    \E i \in 1..Len(messages) :
        /\ messages[i].role = "assistant"
        /\ messages[i].content = <<"alt">>

\* C6: at most one /chat request is in flight, and the messages of the
\* page's session stand in the order of their submits: no message of a later
\* submit before one of an earlier submit, and within one submit the query
\* first and one reply after it.
ChatTurnsInOrder ==
    /\ Cardinality({req \in net : req.endpoint = "/chat"}) <= 1
    /\ \A i, j \in 1..Len(messages) :
           i < j =>
               /\ messages[i].turn <= messages[j].turn
               /\ (messages[i].turn = messages[j].turn /\ messages[i].turn >= 1)
                      => (messages[i].role = "user"
                             /\ messages[j].role = "assistant"
                             /\ j = i + 1)

\* Two submits answered, the second while nothing else is in flight.
ChatTurnsInOrderWitness ==
    /\ Len(messages) >= 4
    /\ messages[Len(messages)].role = "assistant"
    /\ messages[Len(messages)].turn = 2
    /\ messages[Len(messages) - 2].role = "assistant"
    /\ messages[Len(messages) - 2].turn = 1

\* C7: a step that sends a /data-ingest request sends the typed project
\* name, which is not blank, and the selected files, at least one, each entry
\* once and in the order of the selection, and nothing else; a submit with a
\* blank project name or with no file selected sends nothing and leaves
\* isUploading false.
IngestRequestPayload ==
    [][ /\ \A req \in net' \ net :
            req.endpoint = "/data-ingest" =>
                /\ NonBlank(projectName)
                /\ FormGetAll(req.form, "project_name") = <<projectName>>
                /\ Len(files) >= 1
                /\ FormGetAll(req.form, "files_data") = files
                /\ Len(req.form) = Len(files) + 1
        /\ (UploadPage_handleSubmit
                /\ (~NonBlank(projectName) \/ files = <<>>))
              => (net' = net /\ ~isUploading')
      ]_vars

\* An upload in flight with a selection that holds the same file twice.
IngestRequestPayloadWitness ==
    \E req \in net :
        /\ req.endpoint = "/data-ingest"
        /\ FormGetAll(req.form, "files_data") =
               << <<"a", ".pdf">>, <<"a", ".pdf">> >>
        /\ isUploading

\* C8: when an upload's response reports an outcome for each file, what the
\* user is shown does not present a failed file as uploaded, nor a stored
\* file as failed.
UploadReportsEachFile ==
    [][ \A req \in net : \A resp \in UploadResponses(req) :
            (req.endpoint = "/data-ingest" /\ AfterUploadFetch(req, resp)
                /\ resp.net = "http" /\ resp.ok /\ resp.parses)
                => \A i \in 1..Len(resp.data.report) :
                       IF resp.data.report[i].outcome = "success"
                       THEN toast'.title # <<"Upload failed">>
                       ELSE toast'.title # <<"Upload successful">>
      ]_vars

\* A batch of a supported and an unsupported file is in flight.
MixedBatchWitness ==
    \E req \in net :
        /\ req.endpoint = "/data-ingest"
        /\ \E i, j \in 1..Len(IngestReport(FormGetAll(req.form, "files_data"))) :
               /\ IngestReport(FormGetAll(req.form, "files_data"))[i].outcome
                      = "success"
               /\ IngestReport(FormGetAll(req.form, "files_data"))[j].outcome
                      # "success"

\* All records a collection holds, published or not.
RecordsOf(col) == collections[col].visible \cup collections[col].pending

\* C9: the hits of a search against a project are chunks ingested into that
\* project; and every chunk a collection holds is in the collection of its
\* own project, which is the collection of no other project.
ProjectIsolation ==
    /\ \A r \in lastSearch.hits : r.project = lastSearch.project
    /\ \A col \in DOMAIN collections :
           \A r \in RecordsOf(col) : registry[r.project] = col
    /\ \A p1, p2 \in Projects :
           (p1 # p2 /\ registry[p1] # NoCollection)
               => registry[p1] # registry[p2]

\* Both projects hold chunks, and a search against one has just returned
\* its own.
ProjectIsolationWitness ==
    /\ lastSearch.outcome = "ok"
    /\ lastSearch.project = <<"r">>
    /\ lastSearch.hits # {}
    /\ registry[<<"p">>] # NoCollection
    /\ collections[registry[<<"p">>]].visible # {}

\* The writers of a project: the calls that hold its lease.
Writers(project) ==
    {IngestHolder(i) : i \in {j \in Ingests :
                                 /\ ingests[j].project = project
                                 /\ ingests[j].pc \in {"load", "upsert",
                                                       "release"}}}
        \cup (IF deleter.pc = "drop" /\ deleter.project = project
              THEN {DeleteHolder} ELSE {})

\* The batch the upsert of ingest call i writes.
Batch(i) ==
    {Chunk(i, ordinal, ingests[i].project) : ordinal \in 1..ChunksPerFile}

\* C10: a project has at most one writer at a time; what a search reads of
\* a project holds of each ingest's batch all records or none; and the hits
\* of a search come from batches whose upsert has ended well.
SerializedWrites ==
    /\ \A project \in Projects : Cardinality(Writers(project)) <= 1
    /\ \A project \in Projects, i \in Ingests :
           registry[project] # NoCollection =>
               \/ Visible(registry[project]) \cap Batch(i) = {}
               \/ Batch(i) \subseteq Visible(registry[project])
    /\ \A r \in lastSearch.hits : ingests[r.id[1]].outcome = "success"

\* Two ingest calls on one project: the batch of one is published, the other
\* has written half of its batch, and a search has just returned the first.
SerializedWritesWitness ==
    \E i, j \in Ingests :
        /\ i # j
        /\ ingests[i].project = ingests[j].project
        /\ ingests[i].pc = "upsert"
        /\ ingests[i].written = 1
        /\ ingests[j].outcome = "success"
        /\ lastSearch.outcome = "ok"
        /\ lastSearch.project = ingests[i].project
        /\ lastSearch.hits \cap Batch(j) # {}

\* C11: once the upsert of an ingest call has failed, no collection shows
\* any record of its batch and no search returns one; and while an upsert
\* is still writing, no record of its batch is visible yet.
AtomicUpsert ==
    /\ \A i \in Ingests :
           ingests[i].outcome = "StoreError" =>
               /\ \A col \in DOMAIN collections :
                      collections[col].visible \cap Batch(i) = {}
               /\ lastSearch.hits \cap Batch(i) = {}
    /\ \A i \in Ingests :
           ingests[i].pc = "upsert" =>
               \A col \in DOMAIN collections :
                   collections[col].visible \cap Batch(i) = {}

\* An upsert has failed after writing a record of its batch, and a search
\* against its project has just been answered from the collection.
AtomicUpsertWitness ==
    \E i \in Ingests :
        /\ ingests[i].outcome = "StoreError"
        /\ ingests[i].written >= 1
        /\ lastSearch.outcome = "ok"
        /\ lastSearch.project = ingests[i].project

\* The chat a history fetch opens: the first of the list whose vector_id is
\* the id of the route, at position k.
OpenedAt(items, id, k) ==
    /\ k \in 1..Len(items)
    /\ items[k].vector_id = id
    /\ \A j \in 1..(k - 1) : items[j].vector_id # id

SubmitStep ==
    \/ ChatPage_handleSubmit
    \/ ChatDetailPage_handleSubmit
    \/ ChatPage_handleSubmit_settled
    \/ ChatDetailPage_handleSubmit_settled

\* C13: a step of handleSubmit leaves every message of the list in its place
\* and unchanged, and adds at most one message at the end: a user message
\* before the fetch, an assistant message after it.
HistoryAppendOnly ==
    [][ SubmitStep =>
            /\ Len(messages') \in {Len(messages), Len(messages) + 1}
            /\ \A k \in 1..Len(messages) : messages'[k] = messages[k]
            /\ Len(messages') = Len(messages) + 1 =>
                   messages'[Len(messages')].role =
                       IF ChatPage_handleSubmit \/ ChatDetailPage_handleSubmit
                       THEN "user" ELSE "assistant"
      ]_vars

\* The second query of a page has been appended after the first turn while
\* its request is in flight.
HistoryAppendOnlyWitness ==
    /\ route.page = "chat"
    /\ isLoading
    /\ Len(messages) = 4
    /\ messages[1] = WelcomeMessage(route.project)
    /\ messages[3].role = "assistant"
    /\ messages[4].role = "user"
    /\ messages[4].turn = 2

\* C14: the step that handles a 401 answer to the layout's /get_chats
\* request removes the token, shows /login, leaves error and chats as they
\* were, and ends loading.
UnauthorizedLogsOut ==
    [][ \A req \in net : \A resp \in ChatsResponses :
            (req.owner = "fetchChats" /\ AfterChatsFetch(req, resp)
                /\ resp.net = "http" /\ resp.status = 401)
                => /\ token' = Null
                   /\ route' = LoginRoute
                   /\ error' = error
                   /\ chats' = chats
                   /\ chatsLoading' = FALSE
      ]_vars

\* The layout's request has been answered 401 on a chat page: the token is
\* gone, /login is shown, and the layout holds no error and no chats.
UnauthorizedWitness ==
    /\ route = LoginRoute
    /\ token = Null
    /\ toast = NoToast
    /\ ~chatsLoading
    /\ error = Undefined
    /\ chats = <<>>
    /\ net = {}
    /\ messages # <<>>

\* The group a chat belongs to: its project_name, or "Default Project" when
\* the name is empty or missing.
GroupKey(chat) ==
    IF chat.project_name = Undefined \/ chat.project_name = <<>>
    THEN <<"Default Project">> ELSE chat.project_name

\* The chats of the list whose group is key, in the order of the list.
RECURSIVE ChatsOfGroup(_, _)
ChatsOfGroup(list, key) ==
    IF list = <<>> THEN <<>>
    ELSE (IF GroupKey(Head(list)) = key THEN <<Head(list)>> ELSE <<>>)
             \o ChatsOfGroup(Tail(list), key)

\* The number of chats in the first n groups.
RECURSIVE GroupedCount(_, _)
GroupedCount(entries, n) ==
    IF n = 0 THEN 0
    ELSE Len(entries[n].chats) + GroupedCount(entries, n - 1)

\* C15: grouping the layout's chats ends without an error; no two groups
\* have the same key; each group holds exactly the chats of the list whose
\* project_name (or "Default Project") is its key, in the order of the list;
\* every chat of the list has its group; and the groups hold as many chats
\* as the list.
ChatsGroupedByProject ==
    /\ ~chatsByProject.thrown
    /\ \A k1, k2 \in 1..Len(chatsByProject.entries) :
           k1 # k2 =>
               chatsByProject.entries[k1].key # chatsByProject.entries[k2].key
    /\ \A k \in 1..Len(chatsByProject.entries) :
           chatsByProject.entries[k].chats =
               ChatsOfGroup(chats, chatsByProject.entries[k].key)
    /\ \A n \in 1..Len(chats) :
           \E k \in 1..Len(chatsByProject.entries) :
               chatsByProject.entries[k].key = GroupKey(chats[n])
    /\ GroupedCount(chatsByProject.entries, Len(chatsByProject.entries))
           = Len(chats)

\* The layout holds three chats, two of them of one project with another
\* between them.
GroupedWitness ==
    /\ Len(chats) = 3
    /\ chats[1].project_name = chats[3].project_name
    /\ chats[2].project_name # chats[1].project_name
    /\ Len(chatsByProject.entries) = 2

\* A /chat request that failed: the fetch rejected, the status is not OK,
\* or the body does not parse.
ChatFailed(resp) == resp.net = "fault" \/ ~resp.ok \/ ~resp.parses

\* The messages that name no failure.
GenericErrors == { <<"Failed to get response">>, <<"Failed to get a response">> }

\* C16: the step that handles a failed /chat request raises an error toast
\* whose description is the detail of the response when the response is not
\* OK and carries one, and is in no case a generic message.
ChatFailureIdentified ==
    [][ \A req \in net : \A resp \in ChatResponses(req) :
            (req.endpoint = "/chat" /\ AfterChatFetch(req, resp)
                /\ ChatFailed(resp))
                => /\ toast'.variant = "destructive"
                   /\ (resp.net = "http" /\ ~resp.ok /\ resp.parses
                          /\ resp.data.detail # Undefined)
                          => toast'.description = resp.data.detail
                   /\ toast'.description \notin GenericErrors
      ]_vars

\* The error toast of a chat page shows a generic message.
GenericErrorShown ==
    /\ toast.variant = "destructive"
    /\ toast.description \in GenericErrors
    /\ route.page \in {"chat", "detail"}

\* The message lists the detail page may show when it dismisses its loading
\* indicator: the converted history of the conversation req asks for, when
\* the response holds it with a turn at least, or exactly one welcome message.
DismissedWith(req, resp) ==
    { <<WelcomeMessage(req.closure.project)>> }
        \cup IF resp.net = "http" /\ resp.ok /\ resp.parses
                /\ resp.data.chats.isArray
             THEN { ConvertHistory(resp.data.chats.items[k].chat_history) :
                      k \in { n \in 1..Len(resp.data.chats.items) :
                                /\ resp.data.chats.items[n].vector_id
                                       = req.closure.id
                                /\ resp.data.chats.items[n].chat_history
                                       # <<>> } }
             ELSE {}

\* C17: whenever isInitialLoading is false the message list is not empty, and
\* a step of fetchChatHistory that ends the loading leaves in the list the
\* converted history of the conversation or exactly one welcome message.
\* (isInitialLoading is state of ChatDetailPage alone and is true from every
\* mount.)
LoaderDismissedWithMessages ==
    /\ [](~isInitialLoading => messages # <<>>)
    /\ [][ \A req \in net : \A resp \in ChatsResponses :
               (req.owner = "fetchChatHistory" /\ AfterHistoryFetch(req, resp))
                   => /\ ~isInitialLoading'
                      /\ messages' \in DismissedWith(req, resp)
         ]_vars

\* The detail page has dismissed its loading indicator over an empty list.
EmptyAfterLoading == ~isInitialLoading /\ messages = <<>>

\* C18: every conversation of the sidebar with a turn at least is labelled
\* with the user query of its last turn, the most recent one as chat_history
\* holds the oldest turn first; a conversation without a turn is labelled
\* "New conversation".
LabelIsMostRecentQuery ==
    \A k \in 1..Len(chats) :
        IF chats[k].chat_history # <<>>
        THEN chats[k].last_message =
                 chats[k].chat_history[Len(chats[k].chat_history)].user_query
        ELSE chats[k].last_message = <<"New conversation">>

\* A conversation of two turns is labelled with the query of its first turn,
\* which is not the query of its last.
OldestTurnLabelled ==
    \E k \in 1..Len(chats) :
        /\ Len(chats[k].chat_history) = 2
        /\ chats[k].last_message = chats[k].chat_history[1].user_query
        /\ chats[k].last_message # chats[k].chat_history[2].user_query

\* A load of the chat list that failed otherwise than by a 401.
ChatsLoadFailed(resp) ==
    \/ resp.net = "fault"
    \/ ~resp.ok /\ resp.status # 401
    \/ ~resp.parses

\* C19: when the load of the chat list fails, not by a 401, while a chat or
\* a detail page of a project is shown, the step that handles the failure
\* leaves the default conversation of that project as the only chat, and the
\* sidebar then shows a menu with an item that leads to it.
DefaultChatOffered ==
    [][ \A req \in net : \A resp \in ChatsResponses :
            (req.owner = "fetchChats" /\ AfterChatsFetch(req, resp)
                /\ ChatsLoadFailed(resp) /\ route.page \in {"chat", "detail"})
                => /\ chats' = << Chat(<<"default">>, route.project,
                                       <<"default">>, <<>>,
                                       <<"New conversation">>) >>
                   /\ SidebarContent'.view = "menu"
                   /\ \E k \in 1..Len(SidebarContent'.items) :
                          SidebarContent'.items[k].href =
                              DetailRoute(route.project, <<"default">>)
      ]_vars

\* The layout holds the default conversation of the project shown and the
\* sidebar shows the error panel in its place.
DefaultChatHidden ==
    /\ route.page \in {"chat", "detail"}
    /\ Len(chats) = 1
    /\ chats[1].vector_id = <<"default">>
    /\ chats[1].project_name = route.project
    /\ SidebarContent.view = "error"

\* The host name holds the text somewhere: the text lies between a start
\* and an end of the host name.
HostnameHolds(text) ==
    \E from \in 1..Len(hostname) : \E to \in from..Len(hostname) :
        SubSeq(hostname, from, to) = text

\* A preview environment: a browser whose host name holds "vercel.app",
\* "localhost" or "127.0.0.1".
InPreview ==
    /\ isBrowser
    /\ \/ HostnameHolds(<<"vercel", ".", "app">>)
       \/ HostnameHolds(<<"localhost">>)
       \/ HostnameHolds(<<"127", ".", "0", ".", "0", ".", "1">>)

\* C20: outside a browser or in a preview environment, a call of
\* isApiReachable resolves to false in the step that makes it and sends no
\* request, so no request is ever sent or pending there.
NoProbeInPreview ==
    /\ [][ (isApiReachable /\ (~isBrowser \/ InPreview))
               => /\ apiProbe'.pc = "resolved"
                  /\ apiProbe'.result = FALSE
                  /\ apiProbe'.request = NoRequest
                  /\ apiProbe'.sent = apiProbe.sent
         ]_vars
    /\ []((~isBrowser \/ InPreview)
              => apiProbe.sent = 0 /\ apiProbe.request = NoRequest)

\* In a preview served from a host under vercel.app, isApiReachable has been
\* called, has resolved to false, and no request was sent.
NoProbeWitness ==
    /\ isBrowser
    /\ hostname = <<"my-app", ".", "vercel", ".", "app">>
    /\ apiProbe.calls > 0
    /\ apiProbe.pc = "resolved"
    /\ apiProbe.result = FALSE
    /\ apiProbe.sent = 0

\* C21: a call of isApiReachable is idle, awaiting its fetch, or resolved to
\* a boolean, never rejected; the step that resolves it to true is the
\* arrival of an OK response while the abort timer is still armed; a fetch
\* that rejects resolves it to false; and the timer firing over the pending
\* fetch removes the request and resolves it to false.
ProbeResolvesToBoolean ==
    /\ [](/\ apiProbe.pc \in {"idle", "fetch", "resolved"}
          /\ apiProbe.pc = "resolved" => apiProbe.result \in BOOLEAN)
    /\ [][ (apiProbe'.pc = "resolved" /\ apiProbe'.result = TRUE
               /\ apiProbe' # apiProbe)
               => /\ apiProbe.pc = "fetch"
                  /\ apiProbe.timer = "armed"
                  /\ apiProbe'.timer = "cleared"
                  /\ \E resp \in ProbeResponses :
                         resp.net = "http" /\ resp.ok /\ AfterProbeFetch(resp)
         ]_vars
    /\ [][ \A resp \in ProbeResponses :
               (apiProbe.pc = "fetch" /\ AfterProbeFetch(resp)
                   /\ (resp.net = "fault" \/ ~resp.ok))
                   => apiProbe'.pc = "resolved" /\ apiProbe'.result = FALSE
         ]_vars
    /\ [][ (apiProbe.pc = "fetch" /\ isApiReachable_timeout)
               => /\ apiProbe'.pc = "resolved"
                  /\ apiProbe'.result = FALSE
                  /\ apiProbe'.request = NoRequest
         ]_vars

\* The second call of isApiReachable has sent its request and has resolved
\* to true on an OK response, its timer cleared.
ProbeTrueWitness ==
    /\ apiProbe.calls = 2
    /\ apiProbe.sent = 2
    /\ apiProbe.pc = "resolved"
    /\ apiProbe.result = TRUE
    /\ apiProbe.timer = "cleared"

\* A request of fetchChatHistory, whether its page is mounted or not.
HistoryRequest(req) ==
    req.owner \in {"fetchChatHistory", Unmounted("fetchChatHistory")}

ChatRequest(req) ==
    req.owner \in {"ChatPage", "ChatDetailPage", Unmounted("ChatPage"),
                   Unmounted("ChatDetailPage")}

AnsweredOnce(k) ==
    /\ k < Len(messages)
    /\ messages[k + 1].role = "assistant"
    /\ k + 2 <= Len(messages) => messages[k + 2].role = "user"

\* C24: a submit handler that has started finishes (isLoading leads to
\* ~isLoading), and whenever no submit handler is running every query of the
\* list has exactly one assistant message after it.
QueryAnsweredOnce ==
    /\ isLoading ~> ~isLoading
    /\ [](~isLoading =>
              \A k \in 1..Len(messages) :
                  messages[k].role = "user" => AnsweredOnce(k))

\* A submit handler has finished on its missing-token path: /login is
\* pushed, isLoading is false, and the last message is the query.
QueryLeftUnanswered ==
    /\ route = LoginRoute
    /\ ~isLoading
    /\ messages # <<>>
    /\ messages[Len(messages)].role = "user"

\* C25: a busy flag that is set clears.  The step that handles the settled
\* request of a submit or of the chat-list fetch ends with the flag of its
\* component false, and so does a submit that finds no token; and over a
\* network on which every fetch settles, isLoading of a chat page or
\* isUploading being true leads to both being false, and a chat-list fetch
\* in flight leads to the layout's isLoading being false, or to the layout
\* being constructed anew.
BusyFlagsClear ==
    /\ [][ \A req \in net :
               /\ \A resp \in ChatResponses(req) :
                      (req.owner \in {"ChatPage", "ChatDetailPage"}
                          /\ AfterChatFetch(req, resp)) => ~isLoading'
               /\ \A resp \in ChatsResponses :
                      (req.owner = "fetchChats" /\ AfterChatsFetch(req, resp))
                          => ~chatsLoading'
         ]_vars
    /\ [][ UploadPage_handleSubmit_settled => ~isUploading' ]_vars
    /\ [][ (NoToken(token) /\ (\/ ChatPage_handleSubmit
                               \/ ChatDetailPage_handleSubmit
                               \/ UploadPage_handleSubmit))
               => ~isLoading' /\ ~isUploading' ]_vars
    /\ (isLoading \/ isUploading) ~> (~isLoading /\ ~isUploading)
    /\ (\E req \in net : req.owner = "fetchChats")
           ~> (~chatsLoading \/ layoutEffect = "todo")

\* The upload page shows the toast of a failed upload with isUploading back
\* to false and the form as it was submitted.
UploadFlagCleared ==
    /\ route = UploadRoute
    /\ toast.title = <<"Upload failed">>
    /\ ~isUploading
    /\ files # <<>>

=============================================================================
